---------------------------- MODULE Spec2Model ----------------------------
(***************************************************************************)
(* Model of the movies_app Django application: the entity store            *)
(* (models.py), the request handlers (views.py), the post_save signal that *)
(* maintains profiles (models.py) and the URL resolver table (urls.py).    *)
(*                                                                         *)
(* The specifications share the variables:                                 *)
(*   Spec       - the movie views, one request at a time;                  *)
(*   SpecSocial - the comment and favorite views, one request at a time;   *)
(*   SpecStore  - creations and deletions of all entities;                 *)
(*   SpecUser   - accounts and their profiles;                             *)
(*   SpecConc   - toggle_favorite requests interleaved at the level of     *)
(*                their database statements (get, insert, get, delete);    *)
(*   SpecRoute  - resolution of request paths against urlpatterns.         *)
(***************************************************************************)
EXTENDS Integers, Sequences, FiniteSets, TLC

(***************************************************************************)
(* Bounds of the model.                                                    *)
(***************************************************************************)
MaxInserts == 3

NumRequests == 3

(***************************************************************************)
(* Program constants.                                                      *)
(***************************************************************************)
SlugMaxLength == 280

TitleMaxLength == 255

ContentMaxLength == 2000

RatingMin == 0

RatingMax == 100

NULL == "null"

Anonymous == "anonymous"

Users == {"u1", "u2"}

Accounts == Users \cup {"u3", "u4"}

Categories == {"c1"}

Methods == {"GET", "POST"}

VARIABLES
    users,          \* auth_user rows (usernames)
    profiles,       \* users that have a Profile row
    categories,     \* Category rows
    movies,         \* Movie rows: [id, slug, category, created_by, rating]
    comments,       \* Comment rows: [id, movie, user]
    favorites,      \* Favorite rows: [id, user, movie]
    nextMovieId,    \* next primary key of Movie
    nextCommentId,  \* next primary key of Comment
    nextFavId,      \* next primary key of Favorite
    last,           \* the request handled last and its response
    trail,          \* the run of consecutive toggle_favorite requests
    pc,             \* SpecConc: position of each in-flight toggle_favorite
    reqUser,        \* SpecConc: request.user of each request
    held,           \* SpecConc: primary key of the fav object each holds
    outcome,        \* SpecConc: message each request reported
    favs0,          \* SpecConc: the Favorite rows before the requests
    reqPath,        \* SpecRoute: path of the request being resolved
    route           \* SpecRoute: the view and kwargs it resolved to

storeVars == <<users, profiles, categories, movies, comments,
               favorites, nextMovieId, nextCommentId, nextFavId>>

concVars == <<pc, reqUser, held, outcome, favs0>>

routeVars == <<reqPath, route>>

vars == <<storeVars, last, trail, concVars, routeVars>>

(***************************************************************************)
(* django.utils.text.slugify as called by MovieCreateView.form_valid, on   *)
(* titles written as sequences of characters.                              *)
(***************************************************************************)
WordChars == {"a", "b", "_", "1"}

SpaceChars == {" "}

Lower(c) == IF c = "A" THEN "a" ELSE IF c = "B" THEN "b" ELSE c

RECURSIVE LowerAll(_)
LowerAll(s) == IF s = <<>> THEN <<>> ELSE <<Lower(Head(s))>> \o LowerAll(Tail(s))

\* re.sub(r"[^\w\s-]", "", value)
RECURSIVE DropOther(_)
DropOther(s) ==
    IF s = <<>> THEN <<>>
    ELSE IF Head(s) \in WordChars \cup SpaceChars \cup {"-"}
         THEN <<Head(s)>> \o DropOther(Tail(s))
         ELSE DropOther(Tail(s))

IsSep(c) == c \in SpaceChars \cup {"-"}

\* re.sub(r"[-\s]+", "-", value)
RECURSIVE Collapse(_)
Collapse(s) ==
    IF s = <<>> THEN <<>>
    ELSE IF IsSep(Head(s))
         THEN IF Len(s) > 1 /\ IsSep(s[2])
              THEN Collapse(Tail(s))
              ELSE <<"-">> \o Collapse(Tail(s))
         ELSE <<Head(s)>> \o Collapse(Tail(s))

RECURSIVE LStrip(_)
LStrip(s) ==
    IF s # <<>> /\ Head(s) \in {"-", "_"} THEN LStrip(Tail(s)) ELSE s

RECURSIVE RStrip(_)
RStrip(s) ==
    IF s # <<>> /\ s[Len(s)] \in {"-", "_"}
    THEN RStrip(SubSeq(s, 1, Len(s) - 1))
    ELSE s

slugify(title) == RStrip(LStrip(Collapse(DropOther(LowerAll(title)))))

Take(s, n) == IF Len(s) <= n THEN s ELSE SubSeq(s, 1, n)

\* form.instance.slug = slugify(form.instance.title)[:280]
DerivedSlug(title) == Take(slugify(title), SlugMaxLength)


(***************************************************************************)
(* Request inputs.                                                         *)
(***************************************************************************)
TitleInputs == { <<"A", "b">>, <<"a", "b", "!">>, <<"a", " ", "b">> }

SlugInputs == { DerivedSlug(t) : t \in TitleInputs }

RatingInputs == {RatingMin, RatingMax, RatingMax + 1}

ContentLengths == {0, ContentMaxLength, ContentMaxLength + 1}

StaffUsers == {"u2"}

\* request.user: a logged-in account or AnonymousUser
Actors == users \cup {Anonymous}

is_authenticated(actor) == actor # Anonymous

is_staff(actor) == actor \in StaffUsers

(***************************************************************************)
(* Responses.                                                              *)
(***************************************************************************)
NoRedirect == [name |-> "none", slug |-> <<>>]

LoginRedirect == [name |-> "login", slug |-> <<>>]

\* movie.get_absolute_url() = reverse('movie_detail', args=[self.slug])
get_absolute_url(movie) == [name |-> "movie_detail", slug |-> movie.slug]

Response(op, method, actor, out, redirect, rows) ==
    [op |-> op, method |-> method, actor |-> actor, outcome |-> out,
     redirect |-> redirect, rows |-> rows]

\* login_required / LoginRequiredMixin: redirect to the login page
LoginRequired(method) ==
    Response("login_required", method, Anonymous, "login_redirect", LoginRedirect, 0)

\* get_object_or_404 / SingleObjectMixin.get_object: Http404
NotFound(method, actor) ==
    Response("get_object_or_404", method, actor, "not_found", NoRedirect, 0)

NoTrail == [n |-> 0, user |-> NULL, slug |-> <<>>, outs |-> <<>>, pre |-> <<>>]

(***************************************************************************)
(* The entity store: lookups, constraints and on_delete rules.             *)
(***************************************************************************)
FavPairs(favs) == { <<f.user, f.movie>> : f \in favs }

Snapshot == [users |-> users, profiles |-> profiles, categories |-> categories,
             movies |-> movies, comments |-> comments,
             favs |-> FavPairs(favorites)]

\* get_object_or_404(Movie, slug=slug)
MovieBySlug(slug) == { m \in movies : m.slug = slug }

\* get_object_or_404(Comment, pk=pk)
CommentByPk(pk) == { c \in comments : c.id = pk }

\* a Movie table without the unique index on slug
SlugNeverTaken(ms, slug) == FALSE

\* Movie.slug: SlugField(unique=True)
SlugTaken(ms, slug) == \E m \in ms : m.slug = slug

\* Favorite.objects.filter(user=u, movie=m)
FavRows(favs, u, m) == { f \in favs : f.user = u /\ f.movie = m }

\* a Favorite table without the unique_together constraint
NoUniqueTogether(favs, u, m) == FALSE

\* Favorite.Meta.unique_together = ('user', 'movie')
UniqueTogetherViolated(favs, u, m) == FavRows(favs, u, m) # {}

\* Comment.movie with on_delete=DO_NOTHING
KeepComments(cs, movieIds) == cs

\* Comment.movie, Favorite.movie: on_delete=CASCADE
CascadeComments(cs, movieIds) == { c \in cs : c.movie \notin movieIds }

CascadeFavorites(fs, movieIds) == { f \in fs : f.movie \notin movieIds }

\* Movie.category: on_delete=SET_NULL
SetNullCategory(ms, c) ==
    { IF m.category = c THEN [m EXCEPT !.category = NULL] ELSE m : m \in ms }

\* rows inserted so far into the tables with automatic primary keys
InsertsDone == (nextMovieId - 1) + (nextCommentId - 1) + (nextFavId - 1)

CanInsert == InsertsDone < MaxInserts

(***************************************************************************)
(* Authorization checks.                                                   *)
(***************************************************************************)
\* a test_func that also lets staff through
test_func_or_staff(movie, actor) == movie.created_by = actor \/ is_staff(actor)

\* MovieOwnerMixin.test_func
test_func(movie, actor) == movie.created_by = actor

\* a moderation check that forgets the staff role
AuthorOnly(comment, actor) == comment.user = actor

\* delete_comment: not (comment.user != request.user and not is_staff)
MayDeleteComment(comment, actor) == comment.user = actor \/ is_staff(actor)

(***************************************************************************)
(* toggle_favorite on the rows of Favorite, run without interruption:      *)
(* get_or_create, then delete when the row was not created.                *)
(***************************************************************************)
\* a toggle that reports the removal without deleting the row
ToggleWithoutDelete(favs, nid, u, m) ==
    IF FavRows(favs, u, m) = {}
    THEN [favs |-> favs \cup {[id |-> nid, user |-> u, movie |-> m]},
          nextId |-> nid + 1, outcome |-> "added"]
    ELSE [favs |-> favs, nextId |-> nid, outcome |-> "removed"]

ToggleStore(favs, nid, u, m) ==
    LET rows == FavRows(favs, u, m) IN
    IF rows = {}
    THEN [favs |-> favs \cup {[id |-> nid, user |-> u, movie |-> m]},
          nextId |-> nid + 1, outcome |-> "added"]
    ELSE LET fav == CHOOSE f \in rows : TRUE IN
         [favs |-> { f \in favs : f.id # fav.id },
          nextId |-> nid, outcome |-> "removed"]

(***************************************************************************)
(* Initial states.                                                         *)
(***************************************************************************)
Idle == Response("none", "GET", Anonymous, "none", NoRedirect, 0)

\* the store of a fresh installation
InitStore ==
    /\ users = {}
    /\ profiles = {}
    /\ categories = {}
    /\ movies = {}
    /\ comments = {}
    /\ favorites = {}
    /\ nextMovieId = 1
    /\ nextCommentId = 1
    /\ nextFavId = 1

\* the store once the accounts in Users have registered and the admin has
\* entered the categories
InitSite ==
    /\ users = Users
    /\ profiles = Users
    /\ categories = Categories
    /\ movies = {}
    /\ comments = {}
    /\ favorites = {}
    /\ nextMovieId = 1
    /\ nextCommentId = 1
    /\ nextFavId = 1

ConcIdle ==
    /\ pc = [r \in 1..NumRequests |-> "done"]
    /\ reqUser = [r \in 1..NumRequests |-> NULL]
    /\ held = [r \in 1..NumRequests |-> 0]
    /\ outcome = [r \in 1..NumRequests |-> "none"]
    /\ favs0 = {}

RouteIdle ==
    /\ reqPath = <<>>
    /\ route = [view |-> "none", slug |-> <<>>, pk |-> 0, username |-> <<>>]

Init ==
    /\ InitSite
    /\ last = Idle
    /\ trail = NoTrail
    /\ ConcIdle
    /\ RouteIdle

InitEmpty ==
    /\ InitStore
    /\ last = Idle
    /\ trail = NoTrail
    /\ ConcIdle
    /\ RouteIdle

(***************************************************************************)
(* The request handlers, each handled without interruption.               *)
(***************************************************************************)
\* What every handler of Spec leaves alone, and how it answers.
Answer(resp) ==
    /\ last' = resp
    /\ UNCHANGED <<concVars, routeVars>>

\* views.register, and the post_save receiver with created=True
Register(method, u, formOk) ==
    /\ trail' = NoTrail
    /\ UNCHANGED <<categories, movies, comments, favorites,
                   nextMovieId, nextCommentId, nextFavId>>
    /\ IF method = "POST" /\ formOk /\ u \notin users
       THEN /\ users' = users \cup {u}
            /\ profiles' = profiles \cup {u}
            /\ Answer(Response("register", method, Anonymous, "created",
                               [name |-> "movie_list", slug |-> <<>>], 0))
       ELSE /\ UNCHANGED <<users, profiles>>
            /\ Answer(Response("register", method, Anonymous,
                               IF method = "POST" THEN "invalid" ELSE "form",
                               NoRedirect, 0))

\* User.save() of an existing user: the post_save receiver with created=False
\* runs instance.profile.save(), which raises RelatedObjectDoesNotExist when
\* the user has no Profile row.
create_or_update_user_profile(u) ==
    IF u \in profiles THEN "saved" ELSE "error"

SaveUser(u) ==
    /\ u \in users
    /\ trail' = NoTrail
    /\ UNCHANGED storeVars
    /\ Answer(Response("save_user", "POST", u,
                       create_or_update_user_profile(u), NoRedirect, 0))

\* ProfileAdmin: the admin site's delete of a Profile row
AdminDeleteProfile(u) ==
    /\ u \in profiles
    /\ profiles' = profiles \ {u}
    /\ trail' = NoTrail
    /\ UNCHANGED <<users, categories, movies, comments, favorites,
                   nextMovieId, nextCommentId, nextFavId>>
    /\ Answer(Response("admin_delete_profile", "POST", "admin", "deleted",
                       NoRedirect, 1))

\* Deleting a User: Profile.user, Movie.created_by, Comment.user and
\* Favorite.user are on_delete=CASCADE, and the movies' rows cascade in turn.
AdminDeleteUser(u) ==
    LET gone == { m.id : m \in { x \in movies : x.created_by = u } }
        cs == { c \in CascadeComments(comments, gone) : c.user # u }
        fs == { f \in CascadeFavorites(favorites, gone) : f.user # u }
    IN
    /\ u \in users
    /\ users' = users \ {u}
    /\ profiles' = profiles \ {u}
    /\ movies' = { m \in movies : m.created_by # u }
    /\ comments' = cs
    /\ favorites' = fs
    /\ trail' = NoTrail
    /\ UNCHANGED <<categories, nextMovieId, nextCommentId, nextFavId>>
    /\ Answer(Response("admin_delete_user", "POST", "admin", "deleted",
                       NoRedirect,
                       1 + Cardinality(profiles \cap {u}) + Cardinality(gone)
                         + Cardinality(comments \ cs)
                         + Cardinality(favorites \ fs)))

\* CategoryAdmin: name and slug are unique
AdminCreateCategory(c) ==
    /\ c \notin categories
    /\ categories' = categories \cup {c}
    /\ trail' = NoTrail
    /\ UNCHANGED <<users, profiles, movies, comments, favorites,
                   nextMovieId, nextCommentId, nextFavId>>
    /\ Answer(Response("admin_create_category", "POST", "admin", "created",
                       NoRedirect, 0))

AdminDeleteCategory(c) ==
    /\ c \in categories
    /\ categories' = categories \ {c}
    /\ movies' = SetNullCategory(movies, c)
    /\ trail' = NoTrail
    /\ UNCHANGED <<users, profiles, comments, favorites,
                   nextMovieId, nextCommentId, nextFavId>>
    /\ Answer(Response("admin_delete_category", "POST", "admin", "deleted",
                       NoRedirect, 1))

\* MovieForm validation: title required (max_length 255), rating within the
\* validators' range, category a required choice among the Category rows
MovieFormValid(title, category, rating) ==
    /\ Len(title) >= 1
    /\ Len(title) <= TitleMaxLength
    /\ rating >= RatingMin
    /\ rating <= RatingMax
    /\ category \in categories

\* MovieCreateView: LoginRequiredMixin, then form_valid and the INSERT
CreateMovie(method, actor, title, category, rating) ==
    LET slug == DerivedSlug(title)
        resp(out, to) == Response("movie_create", method, actor, out, to, 0)
    IN
    /\ trail' = NoTrail
    /\ UNCHANGED <<users, profiles, categories, comments, favorites,
                   nextCommentId, nextFavId>>
    /\ IF ~is_authenticated(actor)
       THEN /\ UNCHANGED <<movies, nextMovieId>>
            /\ Answer(LoginRequired(method))
       ELSE IF method # "POST"
       THEN /\ UNCHANGED <<movies, nextMovieId>>
            /\ Answer(resp("form", NoRedirect))
       ELSE IF ~MovieFormValid(title, category, rating)
       THEN /\ UNCHANGED <<movies, nextMovieId>>
            /\ Answer(resp("invalid", NoRedirect))
       ELSE IF SlugTaken(movies, slug)
       THEN /\ UNCHANGED <<movies, nextMovieId>>
            /\ Answer(resp("integrity_error", NoRedirect))
       ELSE /\ CanInsert
            /\ movies' = movies \cup
                   {[id |-> nextMovieId, slug |-> slug, category |-> category,
                     created_by |-> actor, rating |-> rating]}
            /\ nextMovieId' = nextMovieId + 1
            /\ Answer(resp("created", [name |-> "movie_detail", slug |-> slug]))

\* MovieUpdateView: LoginRequiredMixin, MovieOwnerMixin, then the form
UpdateMovie(method, actor, slug, category, rating) ==
    LET ms == MovieBySlug(slug)
        resp(out, to) == Response("movie_update", method, actor, out, to, 0)
    IN
    /\ trail' = NoTrail
    /\ UNCHANGED <<users, profiles, categories, comments, favorites,
                   nextMovieId, nextCommentId, nextFavId>>
    /\ IF ~is_authenticated(actor)
       THEN /\ UNCHANGED movies
            /\ Answer(LoginRequired(method))
       ELSE IF ms = {}
       THEN /\ UNCHANGED movies
            /\ Answer(NotFound(method, actor))
       ELSE LET movie == CHOOSE m \in ms : TRUE IN
            IF ~test_func(movie, actor)
            THEN /\ UNCHANGED movies
                 /\ Answer(resp("forbidden", NoRedirect))
            ELSE IF method # "POST"
            THEN /\ UNCHANGED movies
                 /\ Answer(resp("form", NoRedirect))
            ELSE IF ~(rating >= RatingMin /\ rating <= RatingMax
                      /\ category \in categories)
            THEN /\ UNCHANGED movies
                 /\ Answer(resp("invalid", NoRedirect))
            ELSE /\ movies' = (movies \ {movie}) \cup
                        {[movie EXCEPT !.category = category, !.rating = rating]}
                 /\ Answer(resp("updated", get_absolute_url(movie)))

\* MovieDeleteView: LoginRequiredMixin, MovieOwnerMixin, then the delete
DeleteMovie(method, actor, slug) ==
    LET ms == MovieBySlug(slug)
        resp(out, to, n) == Response("movie_delete", method, actor, out, to, n)
    IN
    /\ trail' = NoTrail
    /\ UNCHANGED <<users, profiles, categories,
                   nextMovieId, nextCommentId, nextFavId>>
    /\ IF ~is_authenticated(actor)
       THEN /\ UNCHANGED <<movies, comments, favorites>>
            /\ Answer(LoginRequired(method))
       ELSE IF ms = {}
       THEN /\ UNCHANGED <<movies, comments, favorites>>
            /\ Answer(NotFound(method, actor))
       ELSE LET movie == CHOOSE m \in ms : TRUE IN
            IF ~test_func(movie, actor)
            THEN /\ UNCHANGED <<movies, comments, favorites>>
                 /\ Answer(resp("forbidden", NoRedirect, 0))
            ELSE IF method # "POST"
            THEN /\ UNCHANGED <<movies, comments, favorites>>
                 /\ Answer(resp("form", NoRedirect, 0))
            ELSE /\ movies' = movies \ {movie}
                 /\ comments' = CascadeComments(comments, {movie.id})
                 /\ favorites' = CascadeFavorites(favorites, {movie.id})
                 /\ Answer(resp("deleted", [name |-> "movie_list", slug |-> <<>>],
                                1 + Cardinality(comments \ comments')
                                  + Cardinality(favorites \ favorites')))

\* views.add_comment
AddComment(method, actor, slug, contentLen) ==
    LET ms == MovieBySlug(slug)
        resp(out, to) == Response("add_comment", method, actor, out, to, 0)
    IN
    /\ trail' = NoTrail
    /\ UNCHANGED <<users, profiles, categories, movies, favorites,
                   nextMovieId, nextFavId>>
    /\ IF ~is_authenticated(actor)
       THEN /\ UNCHANGED <<comments, nextCommentId>>
            /\ Answer(LoginRequired(method))
       ELSE IF ms = {}
       THEN /\ UNCHANGED <<comments, nextCommentId>>
            /\ Answer(NotFound(method, actor))
       ELSE LET movie == CHOOSE m \in ms : TRUE IN
            IF method # "POST"
            THEN /\ UNCHANGED <<comments, nextCommentId>>
                 /\ Answer(resp("none", get_absolute_url(movie)))
            ELSE IF ~(contentLen >= 1 /\ contentLen <= ContentMaxLength)
            THEN /\ UNCHANGED <<comments, nextCommentId>>
                 /\ Answer(resp("invalid", get_absolute_url(movie)))
            ELSE /\ CanInsert
                 /\ comments' = comments \cup
                        {[id |-> nextCommentId, movie |-> movie.id, user |-> actor]}
                 /\ nextCommentId' = nextCommentId + 1
                 /\ Answer(resp("posted", get_absolute_url(movie)))

\* views.delete_comment
DeleteComment(method, actor, pk) ==
    LET cs == CommentByPk(pk)
        resp(out, to, n) == Response("delete_comment", method, actor, out, to, n)
    IN
    /\ trail' = NoTrail
    /\ UNCHANGED <<users, profiles, categories, movies, favorites,
                   nextMovieId, nextCommentId, nextFavId>>
    /\ IF ~is_authenticated(actor)
       THEN /\ UNCHANGED comments
            /\ Answer(LoginRequired(method))
       ELSE IF cs = {}
       THEN /\ UNCHANGED comments
            /\ Answer(NotFound(method, actor))
       ELSE LET comment == CHOOSE c \in cs : TRUE
                movie == CHOOSE m \in movies : m.id = comment.movie
            IN
            IF ~MayDeleteComment(comment, actor)
            THEN /\ UNCHANGED comments
                 /\ Answer(resp("permission_error", get_absolute_url(movie), 0))
            ELSE /\ comments' = comments \ {comment}
                 /\ Answer(resp("deleted", get_absolute_url(movie), 1))

\* views.toggle_favorite, handled without interruption
ToggleFavorite(method, actor, slug) ==
    LET ms == MovieBySlug(slug)
        resp(out, to) == Response("toggle_favorite", method, actor, out, to, 0)
    IN
    /\ UNCHANGED <<users, profiles, categories, movies, comments,
                   nextMovieId, nextCommentId>>
    /\ IF ~is_authenticated(actor)
       THEN /\ UNCHANGED <<favorites, nextFavId>>
            /\ trail' = NoTrail
            /\ Answer(LoginRequired(method))
       ELSE IF ms = {}
       THEN /\ UNCHANGED <<favorites, nextFavId>>
            /\ trail' = NoTrail
            /\ Answer(NotFound(method, actor))
       ELSE LET movie == CHOOSE m \in ms : TRUE
                r == ToggleStore(favorites, nextFavId, actor, movie.id)
            IN
            /\ r.nextId > nextFavId => CanInsert
            /\ favorites' = r.favs
            /\ nextFavId' = r.nextId
            /\ trail' = IF trail.n = 1 /\ trail.user = actor /\ trail.slug = slug
                        THEN [trail EXCEPT !.n = 2, !.outs = Append(@, r.outcome)]
                        ELSE [n |-> 1, user |-> actor, slug |-> slug,
                              outs |-> <<r.outcome>>, pre |-> Snapshot]
            /\ Answer(resp(r.outcome, get_absolute_url(movie)))

(***************************************************************************)
(* Spec: the movie views (create, update, delete) requested one at a time  *)
(* by the registered accounts and by anonymous visitors, with every method *)
(* and form input; comments and favorites come from well-formed POSTs.     *)
(***************************************************************************)
Next ==
    \/ \E m \in Methods, a \in Actors, t \in TitleInputs,
          c \in Categories, r \in RatingInputs :
            CreateMovie(m, a, t, c, r)
    \/ \E m \in Methods, a \in Actors, s \in SlugInputs,
          c \in Categories, r \in RatingInputs :
            UpdateMovie(m, a, s, c, r)
    \/ \E m \in Methods, a \in Actors, s \in SlugInputs : DeleteMovie(m, a, s)
    \/ \E a \in users, s \in SlugInputs : AddComment("POST", a, s, 1)
    \/ \E a \in users, s \in SlugInputs : ToggleFavorite("POST", a, s)

Spec == Init /\ [][Next]_vars

(***************************************************************************)
(* SpecSocial: the comment and favorite views requested one at a time by   *)
(* the registered accounts and by anonymous visitors, with every method    *)
(* and input; the movies come from well-formed create requests.            *)
(***************************************************************************)
NextSocial ==
    \/ \E a \in users, t \in TitleInputs, c \in Categories :
            CreateMovie("POST", a, t, c, RatingMax)
    \/ \E m \in Methods, a \in Actors, s \in SlugInputs, n \in ContentLengths :
            AddComment(m, a, s, n)
    \/ \E m \in Methods, a \in Actors, k \in 1..MaxInserts : DeleteComment(m, a, k)
    \/ \E m \in Methods, a \in Actors, s \in SlugInputs : ToggleFavorite(m, a, s)

SpecSocial == Init /\ [][NextSocial]_vars

(***************************************************************************)
(* SpecStore: creations and deletions of the five entities and of users,   *)
(* from an empty store, by well-formed POST requests and the admin site.   *)
(***************************************************************************)
NextStore ==
    \/ \E u \in Users : Register("POST", u, TRUE)
    \/ \E u \in Users : AdminDeleteUser(u)
    \/ \E c \in Categories : AdminCreateCategory(c)
    \/ \E c \in Categories : AdminDeleteCategory(c)
    \/ \E a \in users, t \in TitleInputs, c \in Categories :
            CreateMovie("POST", a, t, c, RatingMax)
    \/ \E a \in users, s \in SlugInputs : DeleteMovie("POST", a, s)
    \/ \E a \in users, s \in SlugInputs : AddComment("POST", a, s, 1)
    \/ \E a \in users, k \in 1..MaxInserts : DeleteComment("POST", a, k)
    \/ \E a \in users, s \in SlugInputs : ToggleFavorite("POST", a, s)

SpecStore == InitEmpty /\ [][NextStore]_vars

(***************************************************************************)
(* SpecUser: the accounts and their profiles alone.                        *)
(***************************************************************************)
NextUser ==
    \/ \E m \in Methods, u \in Accounts, ok \in BOOLEAN : Register(m, u, ok)
    \/ \E u \in Accounts : SaveUser(u)
    \/ \E u \in Accounts : AdminDeleteProfile(u)
    \/ \E u \in Accounts : AdminDeleteUser(u)

SpecUser == InitEmpty /\ [][NextUser]_vars

(***************************************************************************)
(* SpecConc: NumRequests toggle_favorite requests for one movie, in        *)
(* flight together.  Each database statement of the handler is one step:   *)
(* get_or_create is a SELECT, then an INSERT under the unique constraint,  *)
(* then (after IntegrityError) a second SELECT; fav.delete() is a DELETE   *)
(* by primary key.                                                         *)
(***************************************************************************)
Requests == 1..NumRequests

TheMovie == [id |-> 1, slug |-> <<"a", "b">>, category |-> "c1",
             created_by |-> "u1", rating |-> RatingMax]

InitialFavorites ==
    SUBSET { [id |-> 1, user |-> "u1", movie |-> 1],
             [id |-> 2, user |-> "u2", movie |-> 1] }

InitConc ==
    /\ users = Users
    /\ profiles = Users
    /\ categories = Categories
    /\ movies = {TheMovie}
    /\ comments = {}
    /\ favorites \in InitialFavorites
    /\ nextMovieId = 2
    /\ nextCommentId = 1
    /\ nextFavId = 3
    /\ last = Idle
    /\ trail = NoTrail
    /\ pc = [r \in Requests |-> "get"]
    /\ reqUser \in [Requests -> Users]
    /\ held = [r \in Requests |-> 0]
    /\ outcome = [r \in Requests |-> "none"]
    /\ favs0 = favorites
    /\ RouteIdle

ConcFrame ==
    UNCHANGED <<users, profiles, categories, movies, comments,
                nextMovieId, nextCommentId, last, trail, reqUser, favs0,
                routeVars>>

Finish(r, out) ==
    /\ pc' = [pc EXCEPT ![r] = "done"]
    /\ outcome' = [outcome EXCEPT ![r] = out]

\* get_or_create: self.get(**kwargs)
Get(r) ==
    LET rows == FavRows(favorites, reqUser[r], TheMovie.id) IN
    /\ pc[r] = "get"
    /\ UNCHANGED <<favorites, nextFavId>>
    /\ ConcFrame
    /\ IF rows = {}
       THEN /\ pc' = [pc EXCEPT ![r] = "create"]
            /\ UNCHANGED <<held, outcome>>
       ELSE IF Cardinality(rows) > 1
       THEN /\ Finish(r, "error")
            /\ UNCHANGED held
       ELSE /\ pc' = [pc EXCEPT ![r] = "delete"]
            /\ held' = [held EXCEPT ![r] = (CHOOSE f \in rows : TRUE).id]
            /\ UNCHANGED outcome

\* get_or_create: self.create(**params) inside transaction.atomic
Create(r) ==
    /\ pc[r] = "create"
    /\ ConcFrame
    /\ UNCHANGED held
    /\ IF UniqueTogetherViolated(favorites, reqUser[r], TheMovie.id)
       THEN /\ pc' = [pc EXCEPT ![r] = "reget"]
            /\ UNCHANGED <<favorites, nextFavId, outcome>>
       ELSE /\ favorites' = favorites \cup
                   {[id |-> nextFavId, user |-> reqUser[r], movie |-> TheMovie.id]}
            /\ nextFavId' = nextFavId + 1
            /\ Finish(r, "added")

\* get_or_create: after IntegrityError, self.get(**kwargs) again, and the
\* IntegrityError is raised again when the row is gone
ReGet(r) ==
    LET rows == FavRows(favorites, reqUser[r], TheMovie.id) IN
    /\ pc[r] = "reget"
    /\ UNCHANGED <<favorites, nextFavId>>
    /\ ConcFrame
    /\ IF Cardinality(rows) # 1
       THEN /\ Finish(r, "error")
            /\ UNCHANGED held
       ELSE /\ pc' = [pc EXCEPT ![r] = "delete"]
            /\ held' = [held EXCEPT ![r] = (CHOOSE f \in rows : TRUE).id]
            /\ UNCHANGED outcome

\* fav.delete(): DELETE ... WHERE id = fav.pk, then 'Removed from favorites.'
Delete(r) ==
    /\ pc[r] = "delete"
    /\ favorites' = { f \in favorites : f.id # held[r] }
    /\ UNCHANGED <<nextFavId, held>>
    /\ ConcFrame
    /\ Finish(r, "removed")

NextConc ==
    \/ \E r \in Requests : Get(r)
    \/ \E r \in Requests : Create(r)
    \/ \E r \in Requests : ReGet(r)
    \/ \E r \in Requests : Delete(r)

SpecConc == InitConc /\ [][NextConc]_vars

AllDone == \A r \in Requests : pc[r] = "done"

\* the same requests handled one after another, in the given order
RECURSIVE SerialRun(_, _, _)
SerialRun(order, favs, nid) ==
    IF order = <<>>
    THEN [favs |-> favs, outs |-> <<>>]
    ELSE LET t == ToggleStore(favs, nid, reqUser[Head(order)], TheMovie.id)
             rest == SerialRun(Tail(order), t.favs, t.nextId)
         IN [favs |-> rest.favs, outs |-> <<t.outcome>> \o rest.outs]

Orders ==
    { o \in [Requests -> Requests] : \A i, j \in Requests : o[i] = o[j] => i = j }

(***************************************************************************)
(* SpecRoute: django.urls resolution of a request path against urlpatterns.*)
(* A path is the sequence of its segments between slashes, a segment a     *)
(* sequence of characters; the patterns are tried in the order of the list *)
(* and the first match wins.                                               *)
(***************************************************************************)
SegMovie == <<"m", "o", "v", "i", "e">>

SegMovies == <<"m", "o", "v", "i", "e", "s">>

SegAdd == <<"a", "d", "d">>

SegEdit == <<"e", "d", "i", "t">>

SegDelete == <<"d", "e", "l", "e", "t", "e">>

SegComment == <<"c", "o", "m", "m", "e", "n", "t">>

SegFavorite == <<"f", "a", "v", "o", "r", "i", "t", "e">>

SegRegister == <<"r", "e", "g", "i", "s", "t", "e", "r">>

SegLogout == <<"l", "o", "g", "o", "u", "t">>

SegCategory == <<"c", "a", "t", "e", "g", "o", "r", "y">>

SegSearch == <<"s", "e", "a", "r", "c", "h">>

SegUser == <<"u", "s", "e", "r">>

SegDashboard == <<"d", "a", "s", "h", "b", "o", "a", "r", "d">>

Letters ==
    {"a", "b", "c", "d", "e", "f", "g", "h", "i", "l", "m", "n", "o", "r",
     "s", "t", "u", "v", "y"}

Digits == {"1", "7"}

DigitValue(c) == IF c = "1" THEN 1 ELSE 7

\* SlugConverter.regex = '[-a-zA-Z0-9_]+'
IsSlug(seg) ==
    /\ Len(seg) >= 1
    /\ \A i \in 1..Len(seg) : seg[i] \in Letters \cup Digits \cup {"-", "_"}

\* IntConverter.regex = '[0-9]+'
IsInt(seg) ==
    /\ Len(seg) >= 1
    /\ \A i \in 1..Len(seg) : seg[i] \in Digits

\* StringConverter.regex = '[^/]+'
IsStr(seg) == Len(seg) >= 1

\* IntConverter.to_python
RECURSIVE ToInt(_)
ToInt(seg) ==
    IF seg = <<>> THEN 0
    ELSE 10 * ToInt(SubSeq(seg, 1, Len(seg) - 1)) + DigitValue(seg[Len(seg)])

Lit(seg) == [kind |-> "lit", seg |-> seg]

Conv(kind) == [kind |-> kind, seg |-> <<>>]

Pattern(parts, view) == [parts |-> parts, view |-> view]

urlpatterns ==
    << Pattern(<<>>, "CustomLoginView"),
       Pattern(<<Lit(SegRegister)>>, "register"),
       Pattern(<<Lit(SegLogout)>>, "LogoutView"),
       Pattern(<<Lit(SegMovies)>>, "MovieListView"),
       Pattern(<<Lit(SegMovie), Conv("slug")>>, "MovieDetailView"),
       Pattern(<<Lit(SegMovie), Lit(SegAdd)>>, "MovieCreateView"),
       Pattern(<<Lit(SegMovie), Conv("slug"), Lit(SegEdit)>>, "MovieUpdateView"),
       Pattern(<<Lit(SegMovie), Conv("slug"), Lit(SegDelete)>>, "MovieDeleteView"),
       Pattern(<<Lit(SegCategory), Conv("slug")>>, "MoviesByCategoryView"),
       Pattern(<<Lit(SegSearch)>>, "SearchResultsView"),
       Pattern(<<Lit(SegUser), Conv("str")>>, "UserMoviesView"),
       Pattern(<<Lit(SegMovie), Conv("slug"), Lit(SegComment), Lit(SegAdd)>>,
               "add_comment"),
       Pattern(<<Lit(SegComment), Conv("int"), Lit(SegDelete)>>, "delete_comment"),
       Pattern(<<Lit(SegMovie), Conv("slug"), Lit(SegFavorite)>>, "toggle_favorite"),
       Pattern(<<Lit(SegDashboard)>>, "DashboardView") >>

PartMatches(part, seg) ==
    IF part.kind = "lit" THEN seg = part.seg
    ELSE IF part.kind = "slug" THEN IsSlug(seg)
    ELSE IF part.kind = "int" THEN IsInt(seg)
    ELSE IsStr(seg)

PatternMatches(pattern, path) ==
    /\ Len(pattern.parts) = Len(path)
    /\ \A i \in 1..Len(path) : PartMatches(pattern.parts[i], path[i])

\* the captured arguments of the first converter of each kind
Captured(pattern, path, kind, none) ==
    LET at == { i \in 1..Len(path) : pattern.parts[i].kind = kind } IN
    IF at = {} THEN none ELSE path[CHOOSE i \in at : TRUE]

\* URLResolver.resolve: the first pattern of the list that matches
resolve(path) ==
    LET hits == { i \in 1..Len(urlpatterns) : PatternMatches(urlpatterns[i], path) } IN
    IF hits = {}
    THEN [view |-> "Http404", slug |-> <<>>, pk |-> 0, username |-> <<>>]
    ELSE LET first == CHOOSE i \in hits : \A j \in hits : i <= j
             p == urlpatterns[first]
         IN [view |-> p.view,
             slug |-> Captured(p, path, "slug", <<>>),
             pk |-> ToInt(Captured(p, path, "int", <<>>)),
             username |-> Captured(p, path, "str", <<>>)]

PathSegments ==
    {SegMovie, SegMovies, SegAdd, SegEdit, SegDelete, SegComment, SegFavorite,
     SegUser, <<"a", "b">>, <<"a", ".", "b">>, <<"1", "7">>}

MaxPathLen == 4

Paths == UNION { [1..n -> PathSegments] : n \in 0..MaxPathLen }

Pending == [view |-> "pending", slug |-> <<>>, pk |-> 0, username |-> <<>>]

InitRoute ==
    /\ InitStore
    /\ last = Idle
    /\ trail = NoTrail
    /\ ConcIdle
    /\ reqPath \in Paths
    /\ route = Pending

Resolve ==
    /\ route = Pending
    /\ route' = resolve(reqPath)
    /\ UNCHANGED <<reqPath, storeVars, last, trail, concVars>>

NextRoute == Resolve

SpecRoute == InitRoute /\ [][NextRoute]_vars

(***************************************************************************)
(* Properties.  Every handler records the method and the actor of its      *)
(* request in last, so a property of the step just taken takes them from   *)
(* last' and ranges over the other inputs of the request.                  *)
(***************************************************************************)

\* C1: in every state of any interleaving of concurrent toggle_favorite
\* requests, the store holds at most one Favorite row for each pair
\* (user, movie).
C1_AtMostOneFavoritePerPair ==
    \A u \in Users : \A m \in movies :
        Cardinality(FavRows(favorites, u, m.id)) <= 1

\* C1 witness: two requests of one user raced on an absent favorite; one
\* inserted the row and the other's INSERT was refused.
C1_Witness ==
    \E r1, r2 \in Requests :
        /\ r1 # r2
        /\ reqUser[r1] = reqUser[r2]
        /\ outcome[r1] = "added"
        /\ pc[r2] = "reget"
        /\ Cardinality(FavRows(favorites, reqUser[r1], TheMovie.id)) = 1

\* C2: once all concurrent toggle_favorite requests have finished, the
\* favorites that exist and the outcome each request reported equal those of
\* some execution of the same requests one after another.
C2_TogglesSerializable ==
    AllDone =>
        \E o \in Orders :
            LET run == SerialRun(o, favs0, nextFavId) IN
            /\ FavPairs(run.favs) = FavPairs(favorites)
            /\ \A i \in Requests : run.outs[i] = outcome[o[i]]

\* C7: a request to the path /movie/add/ is dispatched to the create-movie
\* handler (MovieCreateView), never to the movie-detail handler with slug
\* "add".
C7_MovieAddRoutesToCreate ==
    (reqPath = <<SegMovie, SegAdd>> /\ route # Pending) =>
        route.view = "MovieCreateView"

\* C3: two toggle_favorite requests by the same authenticated user for the
\* same existing movie, one right after the other, return the store to the
\* state before the first: absent -> "added" then "removed" and absent again;
\* present -> "removed" then "added" and present again; the other favorites
\* and all other records are as before.
C3_ToggleTwiceRestores ==
    trail.n = 2 =>
        LET movie == CHOOSE m \in trail.pre.movies : m.slug = trail.slug
            pair == <<trail.user, movie.id>>
        IN
        /\ pair \notin trail.pre.favs =>
               /\ trail.outs = <<"added", "removed">>
               /\ pair \notin FavPairs(favorites)
        /\ pair \in trail.pre.favs =>
               /\ trail.outs = <<"removed", "added">>
               /\ pair \in FavPairs(favorites)
        /\ FavPairs(favorites) = trail.pre.favs
        /\ users = trail.pre.users
        /\ profiles = trail.pre.profiles
        /\ categories = trail.pre.categories
        /\ movies = trail.pre.movies
        /\ comments = trail.pre.comments

\* C3 witness: a favorite that was present has been toggled twice in a row.
C3_Witness ==
    /\ trail.n = 2
    /\ trail.outs = <<"removed", "added">>
    /\ last.op = "toggle_favorite"

\* C4: a movie update or delete request changes the store only if the acting
\* user is authenticated and is the movie's created_by; from every other
\* actor (anonymous, or authenticated but not the creator, staff included)
\* it is rejected and the store is left unchanged.
C4_OnlyCreatorChangesMovie ==
    [][ last'.op \in {"movie_update", "movie_delete", "login_required"} =>
        \A method \in {last'.method}, actor \in {last'.actor}, slug \in SlugInputs :
          LET ms == MovieBySlug(slug)
              creator == /\ actor \in users
                         /\ \E m \in ms : m.created_by = actor
          IN
          ( /\ ms # {}
            /\ ~creator
            /\ \/ DeleteMovie(method, actor, slug)
               \/ \E c \in Categories, r \in RatingInputs :
                      UpdateMovie(method, actor, slug, c, r) )
          => /\ UNCHANGED storeVars
             /\ last'.outcome \in {"login_redirect", "forbidden"}
      ]_vars

\* C4 witness: the staff user, not the creator, asked to delete a movie that
\* has a comment and a favorite, and was refused.
C4_Witness ==
    /\ last.op = "movie_delete"
    /\ last.method = "POST"
    /\ last.outcome = "forbidden"
    /\ last.actor \in StaffUsers
    /\ \E m \in movies :
           /\ m.created_by # last.actor
           /\ \E c \in comments : c.movie = m.id
           /\ \E f \in favorites : f.movie = m.id

\* C5: delete_comment removes the comment if and only if the acting user is
\* the comment's author or has the staff role; an authenticated user who is
\* neither gets a permission error and a redirect to the page of the
\* comment's movie, and the store is left unchanged.
C5_DeleteCommentModeration ==
    [][ last'.op \in {"delete_comment", "login_required"} =>
        \A method \in {last'.method}, actor \in {last'.actor}, pk \in 1..MaxInserts :
          LET cs == CommentByPk(pk) IN
          (cs # {} /\ DeleteComment(method, actor, pk)) =>
              LET comment == CHOOSE c \in cs : TRUE
                  movie == CHOOSE m \in movies : m.id = comment.movie
                  allowed == /\ actor \in users
                             /\ (comment.user = actor \/ actor \in StaffUsers)
              IN
              /\ (comment \notin comments') <=> allowed
              /\ (actor \in users /\ ~allowed) =>
                     /\ last'.outcome = "permission_error"
                     /\ last'.redirect = [name |-> "movie_detail", slug |-> movie.slug]
                     /\ UNCHANGED storeVars
      ]_vars

\* C5 witness: a user who is neither the author nor staff asked to delete a
\* comment, and the comment is still there.
C5_Witness ==
    /\ last.op = "delete_comment"
    /\ last.outcome = "permission_error"
    /\ last.actor \notin StaffUsers
    /\ \E c \in comments : c.user # last.actor

\* C6: saving an existing user record never fails because of the profile,
\* also when the user has no Profile.
C6_SaveUserNeverFails ==
    last.op = "save_user" => last.outcome = "saved"

RefIntegrity ==
    /\ \A c \in comments :
           /\ \E m \in movies : m.id = c.movie
           /\ c.user \in users
    /\ \A f \in favorites :
           /\ \E m \in movies : m.id = f.movie
           /\ f.user \in users
    /\ \A m \in movies :
           /\ m.created_by \in users
           /\ m.category = NULL \/ m.category \in categories

\* C8: after any sequence of creations and deletions every Comment and
\* Favorite references an existing Movie and User, every Movie an existing
\* creator and a category that is null or exists; deleting a Movie removes
\* its Comments and Favorites, and deleting a Category nulls the category of
\* its movies and deletes no movie.
C8_ReferentialIntegrity ==
    [][ /\ RefIntegrity'
        /\ \A actor \in {last'.actor}, slug \in SlugInputs :
               ( /\ last'.op = "movie_delete"
                 /\ DeleteMovie("POST", actor, slug)
                 /\ movies' # movies ) =>
                   \A m \in movies \ movies' :
                       /\ \A c \in comments' : c.movie # m.id
                       /\ \A f \in favorites' : f.movie # m.id
        /\ \A cat \in Categories :
               (last'.op = "admin_delete_category" /\ AdminDeleteCategory(cat)) =>
                   /\ { m.id : m \in movies' } = { m.id : m \in movies }
                   /\ \A m \in movies :
                          \E n \in movies' :
                              /\ n.id = m.id
                              /\ n.category = IF m.category = cat THEN NULL
                                              ELSE m.category
      ]_vars

\* C8 witness: a movie with a comment and a favorite has been deleted, and
\* the three rows went together.
C8_Witness ==
    /\ last.op = "movie_delete"
    /\ last.outcome = "deleted"
    /\ last.rows = 3
    /\ comments = {}
    /\ favorites = {}

UniqueSlugs == \A m1, m2 \in movies : m1.slug = m2.slug => m1 = m2

\* the slug derived from the title is the slug of an existing movie
SlugTitleCollides(title) ==
    \E m \in movies : m.slug = Take(slugify(title), SlugMaxLength)

\* C9: no two Movie records share a slug, and a create-movie request whose
\* slug derived from the title equals the slug of an existing movie either
\* leaves the store unchanged or stores the new movie under another slug.
\* (A step that leaves the store unchanged meets the first alternative, so
\* the steps to examine are the create-movie steps that change the store.)
C9_SlugsStayUnique ==
    [][ /\ UniqueSlugs'
        /\ (last'.op = "movie_create" /\ storeVars' # storeVars) =>
               \A title \in TitleInputs, c \in Categories, r \in RatingInputs :
                   ( /\ SlugTitleCollides(title)
                     /\ CreateMovie(last'.method, last'.actor, title, c, r) )
                   => \E n \in movies' \ movies :
                          n.slug # Take(slugify(title), SlugMaxLength)
      ]_vars

\* C9 witness: a valid create-movie request whose title slugifies to the slug
\* of an existing movie has been refused by the unique index.
C9_Witness ==
    /\ last.op = "movie_create"
    /\ last.outcome = "integrity_error"
    /\ movies # {}

\* C10: the favorite toggle and the comment deletion are effected only by
\* POST requests: a request with another method creates no Favorite, deletes
\* no Favorite and deletes no Comment.
C10_OnlyPostMutates ==
    (last.op \in {"toggle_favorite", "delete_comment"} /\ last.method # "POST")
        => last.outcome \notin {"added", "removed", "deleted"}

=============================================================================
